---- MODULE Spec2Model ----
(***************************************************************************)
(* Model of the training orchestration core of DiffAugment-stylegan2-      *)
(* pytorch (XLA port):                                                     *)
(*   training/loss.py           StyleGAN2Loss.accumulate_gradients         *)
(*   training/training_loop.py  training_loop                              *)
(*                                                                         *)
(* The specifications share the variables:                                 *)
(*   Spec      one worker process running training_loop; the position in   *)
(*             the loop body is pc, one action per statement group.        *)
(*   FairSpec  Spec with the loop body kept running.                       *)
(*   DataSpec  Spec over data sources that may be empty.                   *)
(*   LossSpec  a direct call of accumulate_gradients, or of run_G, with    *)
(*             inputs drawn from bounded sets (all phase names, valid or   *)
(*             not).                                                       *)
(*                                                                         *)
(* Quantities that are floats in the source are kept as integers:          *)
(*   kimg_per_tick_nimg  is kimg_per_tick * 1000 (images per tick),        *)
(*   p, augment_p        are in units of 1 / (ada_kimg * 1000), so that    *)
(*                       the ADA step is batch_size * ada_interval units,  *)
(*   signs_real, ada_target  are in tenths.                                *)
(* Python's None is the empty set for ada_target and the string "None"     *)
(* elsewhere.                                                              *)
(***************************************************************************)
EXTENDS Integers, Sequences, FiniteSets, TLC

VARIABLES
    args,               \* keyword arguments of training_loop, fixed for a run
    loss,               \* the StyleGAN2Loss object: r1_gamma, pl_weight
    pc,                 \* position in training_loop / in the direct call
    phase_idx,          \* index into phases of the phase being executed
    cur_nimg, cur_tick, tick_start_nimg, batch_idx, done,
    augment_pipe,       \* "None" or "AugmentPipe"
    p,                  \* augment_pipe.p
    ada_stats,          \* "None" or "Collector"
    signs_real,         \* real-logit-sign statistic of the latest step (tenths)
    signs_streak,       \* latest consecutive steps whose statistic was above target
    requires_grad,      \* [G, D] -> BOOLEAN
    grad,               \* [G, D] -> set of losses backpropagated into .grad
    iter_left,          \* batches left in training_set_iterator
    abort_polls,        \* number of abort_fn() calls
    abort_result,       \* outcome of the poll of the latest tick
    progress_calls,     \* number of progress_fn(...) calls
    step_closures,      \* number of xm.add_step_closure(_train_update) calls
    call,               \* arguments of the latest accumulate_gradients call
    result,             \* outcome of the latest accumulate_gradients call
    params,             \* [G, D] -> where the parameters at loop entry come from
    trace,              \* calls made on phases and G_ema in the current iteration
    ema_updates,        \* number of G.EMA(...) calls
    ema_cur_nimg,       \* cur_nimg read by the latest ramp-up computation
    next_calls,         \* number of next(training_set_iterator) calls
    iter_recreations,   \* number of times line 232 recreated the iterator
    g_out,              \* outcome of the latest direct run_G call
    all_gen_z,          \* the synthesized latents of the iteration (line 237)
    all_gen_c,          \* the synthesized labels of the iteration (line 239)
    handed              \* gen_z and gen_c of each accumulate_gradients call
                        \* of the current iteration

vars == << args, loss, pc, phase_idx, cur_nimg, cur_tick, tick_start_nimg,
           batch_idx, done, augment_pipe, p, ada_stats, signs_real,
           signs_streak, requires_grad, grad, iter_left, abort_polls,
           abort_result, progress_calls, step_closures, call, result,
           params, trace, ema_updates, ema_cur_nimg, next_calls,
           iter_recreations, g_out, all_gen_z, all_gen_c, handed >>

----------------------------------------------------------------------------
(* Bounds of the explored inputs.                                          *)

MaxNumGpus == 2
MaxLoaderLen == 2
MaxNumWs == 3

BatchSizes == {4, 300, 400, 1000}
LongRunBatchSizes == {4}
SingleIterationBatchSizes == {1000}
RandomSeeds == {0, 1}
TotalKimgs == {1}
TickNimgs == {500, 1000}
AugmentPs == {0, 8}
AdaTargets == {{}, {6}}
SignStats == {4, 8}
R1Gammas == {0, 10}
PlWeights == {0, 2}
StyleMixingProbs == {0, 9}
MixDraws == {0, 5, 9}
BatchGpus == {1, 2, 4}

Modules == {"G", "D"}

----------------------------------------------------------------------------
(* Helpers.                                                                *)

Max(a, b) == IF a >= b THEN a ELSE b
CeilDiv(a, b) == (a + b - 1) \div b
Sign(x) == IF x > 0 THEN 1 ELSE IF x < 0 THEN -1 ELSE 0
TheValue(S) == CHOOSE x \in S : TRUE
Min(a, b) == IF a <= b THEN a ELSE b

\* A tensor is kept as its number of dimensions and the sequence of its rows
\* (its entries along dimension 0), each row named by its index in the
\* tensor it was synthesized in.
\* torch.randn((n, z_dim)): n fresh rows
Randn(n) == [ndim |-> 2, rows |-> [i \in 1..n |-> i - 1]]

\* torch.from_numpy(np.stack([... for _ in range(n)])): n rows, one per label
Stack(n) == [ndim |-> 2, rows |-> [i \in 1..n |-> i - 1]]

\* tensor.split(n): the chunks of n consecutive rows, the last one shorter
\* when the number of rows is not a multiple of n
Split(t, n) ==
    [k \in 1..CeilDiv(Len(t.rows), n) |->
        [ndim |-> t.ndim,
         rows |-> SubSeq(t.rows, (k - 1) * n + 1, Min(k * n, Len(t.rows)))]]

\* iterating over a tensor: its rows one at a time, each a tensor of one
\* dimension less
Unbind(t) ==
    [i \in 1..Len(t.rows) |-> [ndim |-> t.ndim - 1, rows |-> << t.rows[i] >>]]

\* zip(a, b, c): stops with the shortest of its arguments
Zip(a, b, c) ==
    [i \in 1..Min(Len(a), Min(Len(b), Len(c))) |-> << a[i], b[i], c[i] >>]

----------------------------------------------------------------------------
(* training/loss.py                                                        *)

ValidPhases == {"Gmain", "Greg", "Gboth", "Dmain", "Dreg", "Dboth"}
InvalidPhases == {"Gall", "Dall"}

\* mutant: the assertion accepts any phase name
PhaseIsValid_NoCheck(phase) == TRUE

\* line 66: assert phase in [...]
PhaseIsValid(phase) == phase \in ValidPhases

do_Gmain(phase) == phase \in {"Gmain", "Gboth"}
do_Dmain(phase) == phase \in {"Dmain", "Dboth"}
do_Gpl(self, phase) == phase \in {"Greg", "Gboth"} /\ self.pl_weight # 0
do_Dr1(self, phase) == phase \in {"Dreg", "Dboth"} /\ self.r1_gamma # 0

\* One forward call made by accumulate_gradients: run_G or run_D, the images
\* it is given, and the value of its sync argument.
run_G(sync) == [fn |-> "run_G", img |-> "z", sync |-> sync]
run_D(img, sync) == [fn |-> "run_D", img |-> img, sync |-> sync]

\* mutant: the test admits a probability of zero
StyleMixingEnabled_NonNegative(self) == self.style_mixing_prob >= 0

\* line 47: if self.style_mixing_prob > 0
StyleMixingEnabled(self) == self.style_mixing_prob > 0

\* lines 44-54, the body of run_G on a generator of num_ws layers: ws is
\* the mapped latent sequence, each layer named by the latent it was
\* mapped from ("z", or "z2" for the latent sampled at line 51); cutoff is
\* the draw of line 49 (in 1..num_ws-1), u the draw of torch.rand at line 50
\* (in tenths, like style_mixing_prob).
run_G_ws(self, num_ws, cutoff, u) ==
    LET mixing == StyleMixingEnabled(self)
        cut == IF u < self.style_mixing_prob THEN cutoff ELSE num_ws
        ws == [i \in 1..num_ws |-> IF mixing /\ i > cut THEN "z2" ELSE "z"]
    IN  [outcome |-> "ok", ws |-> ws, synthesis_in |-> ws,
         mapping_calls |-> IF mixing THEN 2 ELSE 1,
         latents_sampled |-> IF mixing THEN 1 ELSE 0]

\* tensor.backward(): the loss is added to .grad of every parameter of the
\* modules in its graph that requires grad.
Backward(g, rg, graph, losses) ==
    [m \in Modules |-> IF m \in graph /\ rg[m] THEN g[m] \cup losses ELSE g[m]]

\* The outcome of accumulate_gradients(phase, ..., sync, gain) on a loss
\* object self, with gradient buffers g and requires_grad flags rg:
\*   outcome  "ok" or the exception raised
\*   ret      the value returned
\*   calls    the forward calls made, in order
\*   grad     the gradient buffers afterwards
accumulate_gradients(self, phase, sync, rg, g) ==
    IF ~PhaseIsValid(phase)
    THEN [outcome |-> "AssertionError", ret |-> "none", calls |-> << >>, grad |-> g]
    ELSE IF do_Gmain(phase)
    THEN \* lines 73-80
         [outcome |-> "ok", ret |-> "loss_Gmain",
          calls |-> << run_G(sync /\ ~do_Gpl(self, phase)), run_D("gen", FALSE) >>,
          grad |-> Backward(g, rg, {"G", "D"}, {"loss_Gmain"})]
    ELSE LET \* lines 83-88
             calls_gen == IF do_Dmain(phase)
                          THEN << run_G(FALSE), run_D("gen", FALSE) >>
                          ELSE << >>
             g_gen == IF do_Dmain(phase)
                      THEN Backward(g, rg, {"G", "D"}, {"loss_Dgen"})
                      ELSE g
             \* lines 92-105
             real_branch == do_Dmain(phase) \/ do_Dr1(self, phase)
             calls_real == IF real_branch
                           THEN Append(calls_gen, run_D("real", sync))
                           ELSE calls_gen
             losses_real == (IF do_Dmain(phase) THEN {"loss_Dreal"} ELSE {})
                              \cup (IF do_Dr1(self, phase) THEN {"loss_Dr1"} ELSE {})
                              \cup {"real_logits*0"}
         IN  IF ~real_branch
             THEN \* line 107 reads real_logits, which was never bound
                  [outcome |-> "UnboundLocalError", ret |-> "none",
                   calls |-> calls_real, grad |-> g_gen]
             ELSE IF ~do_Dmain(phase)
             THEN \* line 109: loss_Dreal is the int 0, which has no mean()
                  [outcome |-> "AttributeError", ret |-> "none",
                   calls |-> calls_real,
                   grad |-> Backward(g_gen, rg, {"D"}, losses_real)]
             ELSE [outcome |-> "ok", ret |-> "loss_Dreal",
                   calls |-> calls_real,
                   grad |-> Backward(g_gen, rg, {"D"}, losses_real)]

----------------------------------------------------------------------------
(* training/training_loop.py                                               *)

\* mutant: the discriminator phase is listed first
phases_DFirst == << [name |-> "Dboth", module |-> "D", interval |-> 1],
                    [name |-> "Gboth", module |-> "G", interval |-> 1] >>

\* lines 208-211
phases == << [name |-> "Gboth", module |-> "G", interval |-> 1],
             [name |-> "Dboth", module |-> "D", interval |-> 1] >>

\* 'G' in phase.name (line 252); the phase lists of the source pair a phase
\* whose name starts with G with the generator and any other with the
\* discriminator.
ModuleOf(name) == IF name \in {"Gmain", "Greg", "Gboth", "Gall"} THEN "G" ELSE "D"

\* mutant: the configured probability is copied with the wrong sign
InitialP_Negated(a) == 0 - a.augment_p

\* line 193: augment_pipe.p.copy_(torch.as_tensor(augment_p))
InitialP(a) == a.augment_p

\* line 191
PipeConfigured(a) ==
    a.augment_kwargs # "None" /\ (a.augment_p > 0 \/ a.ada_target # {})

\* mutant: strict comparison
IsDone_Strict(nimg, a) == nimg > a.total_kimg * 1000

\* line 288: done = (cur_nimg >= total_kimg * 1000)
IsDone(nimg, a) == nimg >= a.total_kimg * 1000

\* line 295: the condition of `continue`
SkipTick(d, tick, nimg, start, a) ==
    (~d) /\ tick # 0 /\ nimg < start + a.kimg_per_tick_nimg

\* mutant: abort_fn is polled although the budget is reached
ShouldPollAbort_EvenWhenDone(d, a) == a.abort_fn # "None"

\* line 300: (not done) and (abort_fn is not None), the guard of abort_fn()
ShouldPollAbort(d, a) == (~d) /\ a.abort_fn # "None"

\* mutant: a statistics collector is created whenever the pipe exists
AdaStatsInit_WithPipe(a) ==
    IF a.augment_kwargs # "None" /\ (a.augment_p > 0 \/ a.ada_target # {})
    THEN "Collector" ELSE "None"

\* line 190: ada_stats = None, the only assignment to ada_stats
AdaStatsInit(a) == "None"

\* line 285: with ada_target = None the subtraction raises TypeError
AdaRaises(stats, idx, a) ==
    stats # "None" /\ idx % a.ada_interval = 0 /\ a.ada_target = {}

\* lines 283-286: the ADA heuristic
ExecuteADA(stats, idx, cur_p, stat, a) ==
    IF stats # "None" /\ idx % a.ada_interval = 0 /\ a.ada_target # {}
    THEN LET adjust == Sign(stat - TheValue(a.ada_target))
                         * (a.batch_size * a.ada_interval)
         IN  Max(cur_p + adjust, 0)
    ELSE cur_p

\* lines 103-136: the arguments explored.  Runs of hundreds of iterations
\* are explored for the single-process scenario only; every other
\* combination is explored on runs of a few iterations.
Args ==
    { a \in [ batch_size : BatchSizes,
              batch_gpu : BatchGpus,
              total_kimg : TotalKimgs,
              kimg_per_tick_nimg : TickNimgs,
              num_gpus : 1..MaxNumGpus,
              rank : 0..(MaxNumGpus - 1),
              loader_len : 1..MaxLoaderLen,
              augment_kwargs : {"None", "kwargs"},
              augment_p : AugmentPs,
              ada_target : AdaTargets,
              ada_interval : {4},
              abort_fn : {"None", "abort_fn"},
              progress_fn : {"None", "progress_fn"},
              resume_pkl : {"None", "pkl"},
              random_seed : RandomSeeds ] :
        /\ a.rank < a.num_gpus
        \* resume_pkl and random_seed act before the loop is entered only:
        \* they are varied on the runs of a single iteration
        /\ a.batch_size \notin SingleIterationBatchSizes =>
              (a.resume_pkl = "None" /\ a.random_seed = 0)
        \* batch_gpu sizes the synthesized batches only: it is varied on
        \* the runs of a single iteration from freshly constructed networks,
        \* and is the default of line 118 elsewhere
        /\ (\/ a.batch_size \notin SingleIterationBatchSizes
            \/ a.resume_pkl # "None"
            \/ a.random_seed # 0) => a.batch_gpu = 4
        /\ a.batch_size \in LongRunBatchSizes =>
              /\ a.num_gpus = 1
              /\ a.loader_len = MaxLoaderLen
              /\ a.kimg_per_tick_nimg = 500
              /\ a.progress_fn = "None"
              /\ a.augment_p = 0
              /\ a.augment_kwargs = "None" => a.ada_target = {} }

LossObjects == [r1_gamma : R1Gammas, pl_weight : PlWeights,
                style_mixing_prob : StyleMixingProbs]

\* The loss objects explored in the loop: style mixing acts inside run_G
\* only and leaves nothing in the loop's state, so the loop is explored
\* with the default style_mixing_prob = 0.9 (loss.py line 29).
LoopLossObjects == { l \in LossObjects : l.style_mixing_prob = 9 }

NoCall == [phase |-> "none", sync |-> FALSE, grad |-> [m \in Modules |-> {}]]
NoResult == [outcome |-> "none", ret |-> "none", calls |-> << >>]

ResultOf(r) == [outcome |-> r.outcome, ret |-> r.ret, calls |-> r.calls]

\* mutant: the retry reuses the exhausted iterator
RecreatedIterator_Exhausted(a) == 0

\* line 232: per_device_loader(device) gives an iterator over the loader's
\* batches; the number of batches it will yield
RecreatedIterator(a) == a.loader_len

\* lines 150-151 and 172-183: where a process's parameters of G and D come
\* from when the loop is entered.  The networks are constructed under the
\* seed random_seed * num_gpus + rank, and rank 0 alone copies the pickle.
InitialParams(a) ==
    [m \in Modules |->
        IF a.resume_pkl # "None" /\ a.rank = 0
        THEN [origin |-> "resume_pkl", seed |-> 0]
        ELSE [origin |-> "constructed",
              seed |-> a.random_seed * a.num_gpus + a.rank]]

NoRunG == [outcome |-> "none", ws |-> << >>, synthesis_in |-> << >>,
           mapping_calls |-> 0, latents_sampled |-> 0]

\* lines 137-225: the state when the while loop is entered
InitWith(A) ==
    /\ args \in A
    /\ loss \in LoopLossObjects
    /\ pc = "fetch"
    /\ phase_idx = 1
    /\ cur_nimg = 0
    /\ cur_tick = 0
    /\ tick_start_nimg = 0
    /\ batch_idx = 0
    /\ done = FALSE
    /\ augment_pipe = IF PipeConfigured(args) THEN "AugmentPipe" ELSE "None"
    /\ p = IF PipeConfigured(args) THEN InitialP(args) ELSE 0
    /\ ada_stats = AdaStatsInit(args)
    /\ signs_real = 0
    /\ signs_streak = 0
    /\ requires_grad = [m \in Modules |-> FALSE]
    /\ grad = [m \in Modules |-> {}]
    /\ iter_left = args.loader_len
    /\ abort_polls = 0
    /\ abort_result = "none"
    /\ progress_calls = 0
    /\ step_closures = 0
    /\ call = NoCall
    /\ result = NoResult
    /\ params = InitialParams(args)
    /\ trace = << >>
    /\ ema_updates = 0
    /\ ema_cur_nimg = 0
    /\ next_calls = 0
    /\ iter_recreations = 0
    /\ g_out = NoRunG
    /\ all_gen_z = << >>
    /\ all_gen_c = Stack(0)
    /\ handed = << >>

Init == InitWith(Args)

loop_vars == << cur_nimg, cur_tick, tick_start_nimg, batch_idx, done >>
ada_vars == << augment_pipe, p, ada_stats >>
obs_vars == << abort_polls, abort_result, progress_calls, step_closures >>
cfg_vars == << args, loss, params >>
ema_vars == << ema_updates, ema_cur_nimg >>
data_vars == << iter_left, next_calls, iter_recreations >>
gen_vars == << all_gen_z, all_gen_c, handed >>

\* lines 229-239: fetch the next real batch; when next() raises, recreate
\* the iterator and call next() once more, outside the try; then synthesize
\* the latents and labels
FetchBatch ==
    /\ pc = "fetch"
    /\ IF iter_left > 0
       THEN /\ iter_left' = iter_left - 1
            /\ next_calls' = next_calls + 1
            /\ iter_recreations' = iter_recreations
            /\ pc' = "zero_grad"
       ELSE LET fresh == RecreatedIterator(args)
            IN  /\ iter_recreations' = iter_recreations + 1
                /\ next_calls' = next_calls + 2
                /\ iter_left' = IF fresh > 0 THEN fresh - 1 ELSE 0
                /\ pc' = IF fresh > 0 THEN "zero_grad" ELSE "error"
    /\ phase_idx' = 1
    /\ trace' = << >>
    /\ all_gen_z' = Split(Randn(2 * args.batch_gpu), args.batch_gpu)
    /\ all_gen_c' = Stack(2 * args.batch_gpu)
    /\ handed' = << >>
    /\ UNCHANGED << cfg_vars, loop_vars, ada_vars, obs_vars, ema_vars, signs_real,
                    signs_streak, requires_grad, grad, call, result, g_out >>

\* line 244: phase.opt.zero_grad(set_to_none=True)
ZeroGrad ==
    /\ pc = "zero_grad"
    /\ grad' = [grad EXCEPT ![phases[phase_idx].module] = {}]
    /\ trace' = Append(trace, << phases[phase_idx].name, "zero_grad" >>)
    /\ pc' = "requires_grad_on"
    /\ UNCHANGED << cfg_vars, gen_vars, loop_vars, ada_vars, obs_vars, ema_vars, data_vars,
                    signs_real, signs_streak, requires_grad, phase_idx, call,
                    result, g_out >>

\* mutant: requires_grad is enabled on both networks
EnableGrad_Both ==
    /\ pc = "requires_grad_on"
    /\ requires_grad' = [m \in Modules |-> TRUE]
    /\ trace' = Append(trace, << phases[phase_idx].name, "requires_grad_(True)" >>)
    /\ pc' = "accumulate"
    /\ UNCHANGED << cfg_vars, gen_vars, loop_vars, ada_vars, obs_vars, ema_vars, data_vars,
                    signs_real, signs_streak, grad, phase_idx, call, result, g_out >>

\* line 245: phase.module.requires_grad_(True)
EnableGrad ==
    /\ pc = "requires_grad_on"
    /\ requires_grad' = [requires_grad EXCEPT ![phases[phase_idx].module] = TRUE]
    /\ trace' = Append(trace, << phases[phase_idx].name, "requires_grad_(True)" >>)
    /\ pc' = "accumulate"
    /\ UNCHANGED << cfg_vars, gen_vars, loop_vars, ada_vars, obs_vars, ema_vars, data_vars,
                    signs_real, signs_streak, grad, phase_idx, call, result, g_out >>

\* mutant: sync is true in every process
SyncFlag_Always(rank) == TRUE

\* lines 247-250: sync = True if rank == 0 else False
SyncFlag(rank) == rank = 0

\* lines 243-257: the phase and its gen_z and gen_c are the current item of
\* zip(phases, all_gen_z, all_gen_c), where all_gen_z is a tuple of chunks
\* and all_gen_c a tensor; sync is true on rank 0 only; one
\* accumulate_gradients call.
\* The discriminator's outputs on the real batch have a sign statistic,
\* observed here when an augmentation pipe exists.
Accumulate ==
    /\ pc = "accumulate"
    /\ LET item == Zip(phases, all_gen_z, Unbind(all_gen_c))[phase_idx]
           ph == item[1]
           sync == SyncFlag(args.rank)
           r == accumulate_gradients(loss, ph.name, sync, requires_grad, grad)
       IN  /\ call' = [phase |-> ph.name, sync |-> sync, grad |-> grad]
           /\ handed' = Append(handed, [phase |-> ph.name, gen_z |-> item[2],
                                        gen_c |-> item[3]])
           /\ result' = ResultOf(r)
           /\ grad' = r.grad
           /\ trace' = Append(trace, << ph.name, "accumulate_gradients" >>)
           /\ pc' = IF r.outcome = "ok" THEN "requires_grad_off" ELSE "error"
           /\ IF ph.module = "D" /\ augment_pipe # "None"
              THEN \E s \in SignStats :
                      /\ signs_real' = s
                      /\ signs_streak' =
                            IF args.ada_target # {} /\ s > TheValue(args.ada_target)
                            THEN IF signs_streak < args.ada_interval
                                 THEN signs_streak + 1 ELSE signs_streak
                            ELSE 0
              ELSE UNCHANGED << signs_real, signs_streak >>
    /\ UNCHANGED << cfg_vars, loop_vars, ada_vars, obs_vars, ema_vars, data_vars,
                    requires_grad, phase_idx, g_out, all_gen_z, all_gen_c >>

\* line 260: phase.module.requires_grad_(False)
DisableGrad ==
    /\ pc = "requires_grad_off"
    /\ requires_grad' = [requires_grad EXCEPT ![phases[phase_idx].module] = FALSE]
    /\ trace' = Append(trace, << phases[phase_idx].name, "requires_grad_(False)" >>)
    /\ pc' = "reduce_gradients"
    /\ UNCHANGED << cfg_vars, gen_vars, loop_vars, ada_vars, obs_vars, ema_vars, data_vars,
                    signs_real, signs_streak, grad, phase_idx, call, result, g_out >>

\* line 262: xm.reduce_gradients(phase.opt)
ReduceGradients ==
    /\ pc = "reduce_gradients"
    /\ trace' = Append(trace, << phases[phase_idx].name, "reduce_gradients" >>)
    /\ pc' = "clipgrad"
    /\ UNCHANGED << cfg_vars, gen_vars, loop_vars, ada_vars, obs_vars, ema_vars, data_vars,
                    signs_real, signs_streak, requires_grad, grad, phase_idx,
                    call, result, g_out >>

\* line 264: phase.module.clipgrad()
ClipGrad ==
    /\ pc = "clipgrad"
    /\ trace' = Append(trace, << phases[phase_idx].name, "clipgrad" >>)
    /\ pc' = "opt_step"
    /\ UNCHANGED << cfg_vars, gen_vars, loop_vars, ada_vars, obs_vars, ema_vars, data_vars,
                    signs_real, signs_streak, requires_grad, grad, phase_idx,
                    call, result, g_out >>

\* line 265: phase.opt.step()
OptStep ==
    /\ pc = "opt_step"
    /\ trace' = Append(trace, << phases[phase_idx].name, "step" >>)
    /\ pc' = "mark_step"
    /\ UNCHANGED << cfg_vars, gen_vars, loop_vars, ada_vars, obs_vars, ema_vars, data_vars,
                    signs_real, signs_streak, requires_grad, grad, phase_idx,
                    call, result, g_out >>

\* line 267: xm.mark_step(), then the next phase of the for loop (line 243)
MarkStep ==
    /\ pc = "mark_step"
    /\ trace' = Append(trace, << phases[phase_idx].name, "mark_step" >>)
    /\ IF phase_idx < Len(phases)
       THEN phase_idx' = phase_idx + 1 /\ pc' = "zero_grad"
       ELSE phase_idx' = phase_idx /\ pc' = "ema"
    /\ UNCHANGED << cfg_vars, gen_vars, loop_vars, ada_vars, obs_vars, ema_vars, data_vars,
                    signs_real, signs_streak, requires_grad, grad, call, result,
                    g_out >>

\* mutant: the G.EMA call is missing
UpdateEMA_Missing ==
    /\ pc = "ema"
    /\ pc' = "update"
    /\ UNCHANGED << cfg_vars, gen_vars, loop_vars, ada_vars, obs_vars, ema_vars, data_vars,
                    signs_real, signs_streak, requires_grad, grad, phase_idx,
                    call, result, trace, g_out >>

\* lines 272-276: ema_beta from cur_nimg (ramp-up), then G.EMA(ema_beta)
UpdateEMA ==
    /\ pc = "ema"
    /\ ema_cur_nimg' = cur_nimg
    /\ ema_updates' = ema_updates + 1
    /\ trace' = Append(trace, << "G", "EMA" >>)
    /\ pc' = "update"
    /\ UNCHANGED << cfg_vars, gen_vars, loop_vars, ada_vars, obs_vars, data_vars,
                    signs_real, signs_streak, requires_grad, grad, phase_idx,
                    call, result, g_out >>

\* mutant: the counter advances by the per-process batch
AdvanceNimg_PerProcess(nimg, a) == nimg + a.batch_size \div a.num_gpus

\* line 279: cur_nimg += batch_size
AdvanceNimg(nimg, a) == nimg + a.batch_size

\* lines 279-296: advance the counters, run the ADA heuristic, compute done
\* and either continue with the next iteration or go on to the tick
UpdateState ==
    /\ pc = "update"
    /\ cur_nimg' = AdvanceNimg(cur_nimg, args)
    /\ batch_idx' = batch_idx + 1
    /\ p' = ExecuteADA(ada_stats, batch_idx', p, signs_real, args)
    /\ done' = IsDone(cur_nimg', args)
    /\ pc' = IF AdaRaises(ada_stats, batch_idx', args) THEN "error"
             ELSE IF SkipTick(done', cur_tick, cur_nimg', tick_start_nimg, args)
             THEN "fetch" ELSE "tick"
    /\ UNCHANGED << cfg_vars, gen_vars, cur_tick, tick_start_nimg, augment_pipe, ada_stats,
                    obs_vars, ema_vars, data_vars, signs_real, signs_streak,
                    requires_grad, grad, phase_idx, call, result, trace, g_out >>

\* lines 300-333: poll abort_fn, count the tick, schedule the report, and
\* leave the loop when done
Tick ==
    /\ pc = "tick"
    /\ \E ret \in BOOLEAN :
          LET poll == ShouldPollAbort(done, args)
          IN  /\ poll \/ ~ret
              /\ abort_polls' = IF poll THEN abort_polls + 1 ELSE abort_polls
              /\ abort_result' = IF ~poll THEN "none"
                                 ELSE IF ret THEN "true" ELSE "false"
              /\ done' = (done \/ (poll /\ ret))
    /\ cur_tick' = cur_tick + 1
    /\ step_closures' = step_closures + 1
    /\ pc' = IF done' THEN "exit" ELSE "fetch"
    /\ UNCHANGED << cfg_vars, gen_vars, cur_nimg, tick_start_nimg, batch_idx, ada_vars,
                    progress_calls, ema_vars, data_vars, signs_real, signs_streak,
                    requires_grad, grad, phase_idx, call, result, trace, g_out >>

Next ==
    \/ FetchBatch
    \/ ZeroGrad
    \/ EnableGrad
    \/ Accumulate
    \/ DisableGrad
    \/ ReduceGradients
    \/ ClipGrad
    \/ OptStep
    \/ MarkStep
    \/ UpdateEMA
    \/ UpdateState
    \/ Tick

Spec == Init /\ [][Next]_vars

\* The loop body has no blocking step: the process keeps executing.
FairSpec == Spec /\ WF_vars(Next)

\* The same loop over data sources that may also be empty (a loader that
\* yields no batch), on runs of a few iterations.
DataArgs ==
    { [a EXCEPT !.loader_len = n] :
        a \in { b \in Args : b.batch_size \in {300, 400} /\ b.num_gpus = 1 },
        n \in 0..MaxLoaderLen }

DataSpec == InitWith(DataArgs) /\ [][Next]_vars

----------------------------------------------------------------------------
(* A direct call of accumulate_gradients.  The caller has zeroed the       *)
(* gradients of the phase's module and enabled requires_grad on it, as     *)
(* lines 244-245 do; the other module's buffers hold whatever an earlier   *)
(* phase left there.                                                       *)

CallPhases == ValidPhases \cup InvalidPhases

LossInit ==
    /\ args \in { a \in Args : /\ a.batch_size = 400
                               /\ a.rank = 0
                               /\ a.kimg_per_tick_nimg = 500
                               /\ a.num_gpus = 1
                               /\ a.loader_len = 1
                               /\ a.augment_kwargs = "None"
                               /\ a.augment_p = 0
                               /\ a.ada_target = {}
                               /\ a.abort_fn = "None"
                               /\ a.progress_fn = "None" }
    /\ loss \in LossObjects
    /\ phase_idx = 1
    /\ cur_nimg = 0
    /\ cur_tick = 0
    /\ tick_start_nimg = 0
    /\ batch_idx = 0
    /\ done = FALSE
    /\ augment_pipe = "None"
    /\ p = 0
    /\ ada_stats = "None"
    /\ signs_real = 0
    /\ signs_streak = 0
    /\ \/ /\ pc = "call"
          /\ \E ph \in CallPhases, sync \in BOOLEAN, other \in {{}, {"earlier"}} :
                /\ requires_grad = [m \in Modules |-> m = ModuleOf(ph)]
                /\ grad = [m \in Modules |-> IF m = ModuleOf(ph) THEN {} ELSE other]
                /\ call = [phase |-> ph, sync |-> sync, grad |-> grad]
       \/ /\ pc = "call_run_G"
          /\ \E sync \in BOOLEAN :
                /\ requires_grad = [m \in Modules |-> m = "G"]
                /\ grad = [m \in Modules |-> {}]
                /\ call = [phase |-> "run_G", sync |-> sync, grad |-> grad]
    /\ iter_left = args.loader_len
    /\ abort_polls = 0
    /\ abort_result = "none"
    /\ progress_calls = 0
    /\ step_closures = 0
    /\ result = NoResult
    /\ params = InitialParams(args)
    /\ trace = << >>
    /\ ema_updates = 0
    /\ ema_cur_nimg = 0
    /\ next_calls = 0
    /\ iter_recreations = 0
    /\ g_out = NoRunG
    /\ all_gen_z = << >>
    /\ all_gen_c = Stack(0)
    /\ handed = << >>

CallAccumulate ==
    /\ pc = "call"
    /\ LET r == accumulate_gradients(loss, call.phase, call.sync, requires_grad, grad)
       IN  /\ result' = ResultOf(r)
           /\ grad' = r.grad
    /\ pc' = "returned"
    /\ UNCHANGED << cfg_vars, gen_vars, loop_vars, ada_vars, obs_vars, ema_vars, data_vars,
                    signs_real, signs_streak, requires_grad, phase_idx, call,
                    trace, g_out >>

\* A direct call of run_G(z, c, sync), lines 44-54, with the random draws of
\* lines 49-50 and the generator's number of layers chosen freely.
CallRunG ==
    /\ pc = "call_run_G"
    /\ \E num_ws \in 2..MaxNumWs, u \in MixDraws :
          \E cutoff \in 1..(num_ws - 1) :
             g_out' = run_G_ws(loss, num_ws, cutoff, u)
    /\ pc' = "returned_run_G"
    /\ UNCHANGED << cfg_vars, gen_vars, loop_vars, ada_vars, obs_vars, ema_vars, data_vars,
                    signs_real, signs_streak, requires_grad, grad, phase_idx,
                    call, result, trace >>

LossNext == CallAccumulate \/ CallRunG

LossSpec == LossInit /\ [][LossNext]_vars

----------------------------------------------------------------------------
(* Properties of training_loop.                                            *)

Budget == args.total_kimg * 1000
AfterUpdate == pc \in {"fetch", "tick", "exit"}

\* C1: with abort_fn absent the loop terminates; it never starts an
\* iteration once cur_nimg >= total_kimg * 1000, and it exits at the end of
\* the first iteration that reaches the budget, that is after exactly
\* ceil(total_kimg * 1000 / batch_size) iterations; with total_kimg = 1 and
\* batch_size = 4 in a single process that is 250 iterations and
\* cur_nimg = 1000.
C1_TerminatesAfterCeilIterations ==
    /\ (args.abort_fn = "None") => <>(pc = "exit")
    /\ [](pc \notin {"tick", "exit"} => cur_nimg < Budget)
    /\ []((args.abort_fn = "None" /\ pc = "exit") =>
            /\ batch_idx = CeilDiv(Budget, args.batch_size)
            /\ cur_nimg >= Budget
            /\ cur_nimg - args.batch_size < Budget)
    /\ []((args.abort_fn = "None" /\ pc = "exit" /\ args.total_kimg = 1
             /\ args.batch_size = 4 /\ args.num_gpus = 1) =>
            (batch_idx = 250 /\ cur_nimg = 1000))

C1_Witness ==
    /\ pc = "exit"
    /\ args.abort_fn = "None" /\ args.num_gpus = 1
    /\ args.total_kimg = 1 /\ args.batch_size = 4
    /\ batch_idx = 250 /\ cur_nimg = 1000

\* C4 (as claimed): with an augmentation pipe, ada_target = 0.6,
\* ada_interval = 4 and batch_size = 4, when the statistic was 0.8 on each of
\* the first 4 optimizer steps, p is unchanged after steps 1 to 3 and after
\* step 4 is larger by batch_size * ada_interval units.
C4_AdjustedEveryAdaInterval ==
    (/\ augment_pipe # "None"
     /\ args.ada_target = {6} /\ args.ada_interval = 4 /\ args.batch_size = 4
     /\ AfterUpdate
     /\ batch_idx \in 1..4
     /\ signs_real = 8 /\ signs_streak = batch_idx)
    => p = IF batch_idx < 4
           THEN InitialP(args)
           ELSE InitialP(args) + args.batch_size * args.ada_interval

\* C5 (as claimed): every tick boundary resets the tick window, that is
\* tick_start_nimg becomes the cur_nimg of that boundary.
C5_TickWindowReset ==
    [][cur_tick' # cur_tick => tick_start_nimg' = cur_nimg']_vars

\* C6 (as claimed): when progress_fn is supplied it has been invoked at
\* least once by the time a tick boundary has been completed.
C6_ProgressReported ==
    (args.progress_fn # "None" /\ cur_tick >= 1) => progress_calls >= 1

\* C7: abort_fn is called only in an iteration that is a tick boundary
\* (first tick, or cur_nimg past the tick window) whose image count is
\* below the budget, once for that tick; the tick is still counted and its
\* report scheduled; when the call returns true the loop exits, and no
\* iteration runs after the exit.
C7_AbortPolledOncePerTick ==
    [][/\ abort_polls' # abort_polls =>
            /\ abort_polls' = abort_polls + 1
            /\ cur_tick' = cur_tick + 1
            /\ step_closures' = step_closures + 1
            /\ cur_nimg < Budget
            /\ (cur_tick = 0 \/ cur_nimg >= tick_start_nimg + args.kimg_per_tick_nimg)
            /\ batch_idx' = batch_idx
            /\ (abort_result' = "true" => pc' = "exit")
            /\ (abort_result' = "false" => pc' = "fetch")
       /\ abort_polls' = abort_polls => abort_result' \in {abort_result, "none"}
       /\ pc = "exit" => FALSE
      ]_vars

C7_Witness ==
    /\ pc = "exit"
    /\ abort_result = "true"
    /\ cur_nimg < Budget
    /\ abort_polls >= 2 /\ cur_tick = abort_polls /\ step_closures = cur_tick

\* C10: the augmentation probability is never negative.
C10_PNonNegative == p >= 0

C10_Witness ==
    /\ augment_pipe # "None"
    /\ args.ada_target # {}
    /\ AfterUpdate
    /\ batch_idx = args.ada_interval
    /\ signs_real < TheValue(args.ada_target)
    /\ p < args.batch_size * args.ada_interval

\* C11: with ada_target = None the augmentation probability keeps the value
\* it had when the loop was entered, and the adjustment step raises nothing.
C11_DisabledWithoutTarget ==
    (args.ada_target = {}) =>
        /\ p = IF PipeConfigured(args) THEN args.augment_p ELSE 0
        /\ pc # "error"

C11_Witness ==
    /\ args.ada_target = {}
    /\ augment_pipe # "None"
    /\ AfterUpdate
    /\ batch_idx = args.ada_interval
    /\ p = args.augment_p /\ p > 0

PhaseOps == << "zero_grad", "requires_grad_(True)", "accumulate_gradients",
              "requires_grad_(False)", "reduce_gradients", "clipgrad", "step",
              "mark_step" >>

\* The calls of one iteration in the claimed order: the eight steps of the
\* generator phase, the eight steps of the discriminator phase, the EMA.
ExpectedIteration ==
    [i \in 1..(2 * Len(PhaseOps)) |->
        << IF i <= Len(PhaseOps) THEN "Gboth" ELSE "Dboth",
           PhaseOps[((i - 1) % Len(PhaseOps)) + 1] >>]
      \o << << "G", "EMA" >> >>

IsPrefix(a, b) == Len(a) <= Len(b) /\ a = SubSeq(b, 1, Len(a))

IterationComplete ==
    pc \in {"update", "tick"} \/ (pc \in {"fetch", "exit"} /\ batch_idx > 0)

\* C12: in every iteration the generator phase runs before the
\* discriminator phase, and each phase makes these calls once each in this
\* order: zero_grad, requires_grad_(True), accumulate_gradients,
\* requires_grad_(False), reduce_gradients, clipgrad, step, mark_step.
C12_PhaseStepsInFixedOrder ==
    /\ IsPrefix(trace, ExpectedIteration)
    /\ pc = "ema" => trace = SubSeq(ExpectedIteration, 1, 2 * Len(PhaseOps))
    /\ IterationComplete => trace = ExpectedIteration

C12_Witness ==
    /\ pc = "update"
    /\ batch_idx >= 1
    /\ trace = ExpectedIteration

\* C13: cur_nimg, batch_idx and cur_tick never decrease; an iteration
\* advances cur_nimg by batch_size and batch_idx by 1 together, so
\* cur_nimg = batch_idx * batch_size; cur_tick advances by at most 1 per
\* iteration, so cur_tick <= batch_idx.
C13_CountersAdvanceTogether ==
    /\ [](cur_nimg = batch_idx * args.batch_size /\ cur_tick <= batch_idx)
    /\ [][/\ cur_nimg' >= cur_nimg /\ batch_idx' >= batch_idx /\ cur_tick' >= cur_tick
          /\ (batch_idx' # batch_idx \/ cur_nimg' # cur_nimg) =>
                (batch_idx' = batch_idx + 1 /\ cur_nimg' = cur_nimg + args.batch_size)
          /\ cur_tick' # cur_tick => (cur_tick' = cur_tick + 1 /\ batch_idx' = batch_idx)
         ]_vars

C13_Witness ==
    /\ args.num_gpus = 2
    /\ batch_idx = 3
    /\ cur_nimg = 3 * args.batch_size
    /\ cur_tick = 1

\* C14: the sync flag handed to accumulate_gradients is true in the process
\* of rank 0 and false in every other process, so among the ranks
\* 0..num_gpus-1 of a deployment exactly one has it true.
C14_SyncOnCoordinatorOnly ==
    (call.phase # "none") =>
        /\ call.sync = (args.rank = 0)
        /\ Cardinality({r \in 0..(args.num_gpus - 1) : SyncFlag(r)}) = 1

C14_Witness ==
    /\ call.phase = "Dboth"
    /\ args.num_gpus = 2 /\ args.rank = 1
    /\ ~call.sync

\* C15: a fetch from an exhausted iterator recreates the iterator once and
\* calls next() once more; with a data source that yields batches the
\* iteration goes on with the refetched batch, with cur_nimg, batch_idx and
\* cur_tick as they were; when the retried fetch fails too (an empty
\* source) the error leaves the loop; nothing else ends in an error.
C15_RefetchOncePerExhaustion ==
    /\ [](pc = "error" => args.loader_len = 0)
    /\ [][pc = "fetch" =>
            /\ UNCHANGED << cur_nimg, batch_idx, cur_tick >>
            /\ iter_left > 0 =>
                  /\ iter_recreations' = iter_recreations
                  /\ next_calls' = next_calls + 1
                  /\ pc' = "zero_grad"
            /\ iter_left = 0 =>
                  /\ iter_recreations' = iter_recreations + 1
                  /\ next_calls' = next_calls + 2
                  /\ args.loader_len > 0 =>
                        (pc' = "zero_grad" /\ iter_left' = args.loader_len - 1)
                  /\ args.loader_len = 0 => pc' = "error"
         ]_vars
    /\ [][pc # "fetch" => UNCHANGED << iter_recreations, next_calls >>]_vars

C15_Witness ==
    /\ pc = "zero_grad"
    /\ args.loader_len = 1
    /\ batch_idx = 2
    /\ iter_recreations = 2
    /\ next_calls = 5

\* C18 (as claimed): a process enters the first iteration with the
\* parameters the coordinator (rank 0) of its deployment enters it with.
C18_ReplicasStartIdentical ==
    (pc = "fetch" /\ batch_idx = 0) =>
        params = InitialParams([args EXCEPT !.rank = 0])

\* C19: while a phase's accumulate_gradients call runs (and until line 260
\* has run) requires_grad is set on that phase's module and on no other;
\* at every other point of the loop it is set on no module.
C19_GradEnabledOnPhaseModuleOnly ==
    IF pc \in {"accumulate", "requires_grad_off"}
    THEN requires_grad = [m \in Modules |-> m = phases[phase_idx].module]
    ELSE requires_grad = [m \in Modules |-> FALSE]

C19_Witness ==
    /\ pc = "accumulate"
    /\ phases[phase_idx].name = "Dboth"
    /\ requires_grad["D"] /\ ~requires_grad["G"]

\* C20: G.EMA is called once per iteration, after the optimizer steps of
\* both phases and before the counters advance: the number of EMA updates
\* is batch_idx at every iteration boundary, and each ramp-up reads the
\* cur_nimg of the iterations before it (0 in the first iteration).
C20_EmaOncePerIteration ==
    /\ ema_updates = batch_idx + (IF pc = "update" THEN 1 ELSE 0)
    /\ ema_updates >= 1 => ema_cur_nimg = (ema_updates - 1) * args.batch_size
    /\ pc = "update" =>
          /\ ema_cur_nimg = cur_nimg
          /\ trace = ExpectedIteration

C20_Witness ==
    /\ pc = "update"
    /\ batch_idx = 0 /\ cur_nimg = 0
    /\ ema_updates = 1 /\ ema_cur_nimg = 0

----------------------------------------------------------------------------
(* Properties of accumulate_gradients, on a direct call.                   *)

Returned == pc = "returned"
OtherModule(m) == IF m = "G" THEN "D" ELSE "G"

\* C2 (as claimed): for each of the six valid phases and every r1_gamma and
\* pl_weight the call completes, returns a loss, and populates the gradient
\* buffers of the phase's module and of no other module.
C2_EveryValidPhaseCompletes ==
    (Returned /\ call.phase \in ValidPhases) =>
        /\ result.outcome = "ok"
        /\ result.ret # "none"
        /\ grad[ModuleOf(call.phase)] # {}
        /\ grad[OtherModule(ModuleOf(call.phase))]
             = call.grad[OtherModule(ModuleOf(call.phase))]

\* C3 (as claimed): with r1_gamma = 0 a Dreg call completes without error
\* and leaves every gradient buffer as it was; a Dboth call leaves the
\* gradients of the main-loss branch (those of a Dmain call).
C3_DregWithGammaZeroIsNoOp ==
    (Returned /\ loss.r1_gamma = 0) =>
        /\ call.phase = "Dreg" => (result.outcome = "ok" /\ grad = call.grad)
        /\ call.phase = "Dboth" =>
              /\ result.outcome = "ok"
              /\ grad = accumulate_gradients(loss, "Dmain", call.sync,
                                             requires_grad, call.grad).grad

\* C8: a phase outside the six recognized names is rejected by the
\* assertion before any forward call is made and with every gradient buffer
\* as it was.
C8_InvalidPhaseRejectedEagerly ==
    (Returned /\ call.phase \notin ValidPhases) =>
        /\ result.outcome = "AssertionError"
        /\ result.calls = << >>
        /\ grad = call.grad

C8_Witness ==
    /\ Returned
    /\ call.phase = "Gall"
    /\ result.outcome = "AssertionError"
    /\ grad["D"] = {"earlier"}

\* C9 (as claimed): a Dreg call with r1_gamma # 0 backpropagates the R1
\* penalty and returns zero without raising.
C9_DregReturnsZero ==
    (Returned /\ call.phase = "Dreg" /\ loss.r1_gamma # 0) =>
        /\ "loss_Dr1" \in grad["D"]
        /\ result.outcome = "ok"
        /\ result.ret = "zero"

\* C16: with style_mixing_prob = 0 run_G calls the mapping network once,
\* samples no second latent, and hands synthesis the mapped sequence with
\* every layer as the mapping network returned it.
C16_NoStyleMixingAtProbZero ==
    (pc = "returned_run_G" /\ loss.style_mixing_prob = 0) =>
        /\ g_out.mapping_calls = 1
        /\ g_out.latents_sampled = 0
        /\ \A i \in 1..Len(g_out.ws) : g_out.ws[i] = "z"
        /\ g_out.synthesis_in = g_out.ws

C16_Witness ==
    /\ pc = "returned_run_G"
    /\ loss.style_mixing_prob = 0
    /\ Len(g_out.synthesis_in) = 3
    /\ g_out.mapping_calls = 1

SyncedCalls == { i \in 1..Len(result.calls) : result.calls[i].sync }

\* C17 (as claimed, for the calls that return): a call with sync = true and
\* a valid phase makes exactly one forward call with synchronization
\* enabled, run_G in a generator phase and run_D on the real images in a
\* discriminator phase; a call with sync = false makes none.
C17_ExactlyOneSyncedForward ==
    (Returned /\ call.phase \in ValidPhases /\ result.outcome = "ok") =>
        IF call.sync
        THEN /\ Cardinality(SyncedCalls) = 1
             /\ \A i \in SyncedCalls :
                   IF ModuleOf(call.phase) = "G"
                   THEN result.calls[i].fn = "run_G"
                   ELSE result.calls[i].fn = "run_D" /\ result.calls[i].img = "real"
        ELSE SyncedCalls = {}

----------------------------------------------------------------------------
(* Properties of the synthesized batches.                                  *)

RowsOf(t) == { t.rows[i] : i \in 1..Len(t.rows) }

\* C21 (as claimed): in every iteration each phase is handed a latent batch
\* of batch_gpu samples and a label batch of batch_gpu labels, one per latent
\* sample, and the two phases receive disjoint slices of the 2 * batch_gpu
\* synthesized latents and of the 2 * batch_gpu synthesized labels.
C21_PhasesHandedDisjointBatches ==
    \A i \in 1..Len(handed) :
        /\ Len(handed[i].gen_z.rows) = args.batch_gpu
        /\ Len(handed[i].gen_c.rows) = args.batch_gpu
        /\ RowsOf(handed[i].gen_z) \subseteq 0..(2 * args.batch_gpu - 1)
        /\ RowsOf(handed[i].gen_c) \subseteq 0..(2 * args.batch_gpu - 1)
        /\ \A j \in 1..Len(handed) :
              j # i =>
                 /\ RowsOf(handed[i].gen_z) \cap RowsOf(handed[j].gen_z) = {}
                 /\ RowsOf(handed[i].gen_c) \cap RowsOf(handed[j].gen_c) = {}

====
